---- MODULE Spec2Model ----
(***************************************************************************)
(* Model of srw_detector.py: the SRWDetector ophyd device.                 *)
(*                                                                         *)
(* The adapter is constructed once (__init__), then the host calls        *)
(* trigger(), unstage() and describe() on it.  trigger() is modelled line  *)
(* by line as a sequence of steps of the calling thread, so that two       *)
(* overlapping calls can interleave; `serialised` says whether the host    *)
(* keeps the trigger() calls on the instance from overlapping.             *)
(*                                                                         *)
(* Python values: None is the empty tuple and a present value v is <<v>>   *)
(* wherever a slot holds values of several types (signals, _resource_id);  *)
(* for string arguments None is the string "None".                         *)
(***************************************************************************)
EXTENDS Integers, Sequences, FiniteSets, TLC

\* ----------------------------------------------------------------- bounds

\* new_uid() is called at most MaxUid times (number of triggers that get
\* as far as generating a datum id).
MaxUid == 3

\* The same, when the host lets trigger() calls overlap
MaxOverlapUid == 2

\* ------------------------------------------------------- program constants

\* element[param] = reading * 1000
Scale == 1000

None == <<>>
Some(v) == <<v>>

PyNone == "None"

\* Python truthiness of a string-or-None argument (assert sim_id)
Truthy(v) == v \notin {PyNone, ""}

Threads == {1, 2}

\* Values a motor's read() can return for its field
Readings == {1, 2}

\* Results read_srw_file can return
Rets ==
  { [shape |-> <<100, 100>>, mean |-> 5, photon_energy |-> 9000,
     horizontal_extent |-> <<-1, 1>>, vertical_extent |-> <<-1, 1>>],
    [shape |-> <<50, 20>>, mean |-> 7, photon_energy |-> 8000,
     horizontal_extent |-> <<-2, 2>>, vertical_extent |-> <<-3, 3>>] }

\* The date part of the result path (date.strftime('%Y/%m/%d'))
Dates == {"2019/07/01"}

\* The six Signal components of the device class
SignalNames ==
  {"image", "shape", "mean", "photon_energy", "horizontal_extent",
   "vertical_extent"}

\* ------------------------------------------------ constructor arguments

\* Arguments a caller can pass to SRWDetector(...).  The second motor, field
\* and parameter default to None; the script passes param1 = '' when the
\* operator presses ENTER.
MotorArgs ==
  { [motor1 |-> "c_y",  field1 |-> "optic_y", param1 |-> "vertOffset"],
    [motor1 |-> PyNone, field1 |-> PyNone,    param1 |-> PyNone],
    [motor1 |-> "c_y",  field1 |-> "optic_y", param1 |-> ""] }

SimIds == {PyNone, "", "sim1"}

Args ==
  { [optic_name |-> "optic", param0 |-> "horzOffset", motor0 |-> "c_x",
     field0 |-> "optic_x", motor1 |-> m.motor1, field1 |-> m.field1,
     param1 |-> m.param1, sim_id |-> s, watch_name |-> "W60",
     sirepo_server |-> "http://10.10.10.10:8000"] :
    m \in MotorArgs, s \in SimIds }

\* ------------------------------------------------------ remote service

Element(title, id) ==
  [title |-> title, id |-> id,
   params |-> [k \in {"horzOffset", "vertOffset"} |-> 0]]

\* data['models']['beamline'] as the service can return it from auth()
Beamlines ==
  { <<Element("optic", 1), Element("W60", 2)>>,
    <<Element("W60", 2)>>,
    <<Element("optic", 1)>> }

\* sb.find_element(elements, 'title', value): index of the first element
\* with that title, 0 when there is none (the call then fails)
find_element(elements, value) ==
  IF \E i \in 1..Len(elements) : elements[i].title = value
    THEN CHOOSE i \in 1..Len(elements) :
           /\ elements[i].title = value
           /\ \A j \in 1..(i - 1) : elements[j].title # value
    ELSE 0

\* element[param] = value  (a dict assignment: adds the key when absent)
SetItem(d, key, value) ==
  [k \in DOMAIN d \cup {key} |-> IF k = key THEN value ELSE d[k]]

\* ---------------------------------------------------------------- state

VARIABLES
  args,          \* the arguments the constructor is called with
  serialised,    \* TRUE when the host never overlaps calls on the instance
  status,        \* "new", "ready" or "AssertionError" (outcome of __init__)
  self,          \* the configuration attributes stored by __init__
  resource_id,   \* self._resource_id
  result,        \* self._result
  sig,           \* values of the six signals
  resources,     \* registry: resources, in insertion order (id = index)
  datums,        \* registry: datums, in insertion order
  files,         \* paths of the result files on disk
  nextUid,       \* new_uid(): next fresh identifier
  remoteCalled,  \* TRUE once any call to the Sirepo service has been made
  pc,            \* position of each calling thread inside trigger()
  loc,           \* local variables of each call of trigger()
  last,          \* the call that returned last, and what it returned
  completed,     \* the triggers that returned NullStatus: datum id, result
  snap           \* adapter and registry state when the latest trigger began

vars ==
  <<args, serialised, status, self, resource_id, result, sig,
    resources, datums, files, nextUid, remoteCalled, pc, loc,
    last, completed, snap>>

NoLocals ==
  [x |-> 0, y |-> 0, datum_id |-> 0, srw_file |-> None, data |-> None,
   ret |-> None, put |-> 0]

NoSignals == [s \in SignalNames |-> None]

\* What the host's latest call returned: op is the method, outcome "ok",
\* "NullStatus", the exception raised, or "running" while a trigger() has
\* not returned; res the dict describe() returned, after the method that
\* had returned before a describe()
Returned(op, outcome) ==
  [op |-> op, outcome |-> outcome, res |-> None, after |-> "-"]

InitAdapter ==
  /\ args \in Args
  /\ status = "new"
  /\ self = None
  /\ resource_id = None
  /\ result = {}
  /\ sig = NoSignals
  /\ resources = <<>>
  /\ datums = <<>>
  /\ files = {}
  /\ nextUid = 1
  /\ remoteCalled = FALSE
  /\ pc = [t \in Threads |-> "idle"]
  /\ loc = [t \in Threads |-> NoLocals]
  /\ last = Returned("none", "ok")
  /\ completed = {}
  /\ snap = None

\* The host serialises the calls on the instance
Init == serialised = TRUE /\ InitAdapter

\* The host may or may not let trigger() calls overlap
InitOverlap == serialised \in BOOLEAN /\ InitAdapter

\* ------------------------------------------------------------ __init__

\* Mutant of Construct: the assertion is `sim_id is not None`
ConstructAssertNotNone ==
  /\ status = "new"
  /\ self' = Some(args)
  /\ resource_id' = None
  /\ result' = {}
  /\ status' = IF args.sim_id # PyNone THEN "ready" ELSE "AssertionError"
  /\ last' = Returned("construct",
                      IF args.sim_id # PyNone THEN "ok" ELSE "AssertionError")
  /\ UNCHANGED <<args, serialised, sig, resources, datums, files,
                 nextUid, remoteCalled, pc, loc, completed, snap>>

\* SRWDetector.__init__: every argument is stored, then `assert sim_id`.
Construct ==
  /\ status = "new"
  /\ self' = Some([optic_name |-> args.optic_name,
                   param0 |-> args.param0,
                   param1 |-> args.param1,
                   motor0 |-> args.motor0,
                   motor1 |-> args.motor1,
                   field0 |-> args.field0,
                   field1 |-> args.field1,
                   sim_id |-> args.sim_id,
                   watch_name |-> args.watch_name,
                   sirepo_server |-> args.sirepo_server])
  /\ resource_id' = None
  /\ result' = {}
  /\ status' = IF Truthy(args.sim_id) THEN "ready" ELSE "AssertionError"
  /\ last' = Returned("construct",
                      IF Truthy(args.sim_id) THEN "ok" ELSE "AssertionError")
  /\ UNCHANGED <<args, serialised, sig, resources, datums, files,
                 nextUid, remoteCalled, pc, loc, completed, snap>>

\* ------------------------------------------------------------- trigger

Cfg == self[1]

\* No trigger() is in flight
Quiet == \A t \in Threads : pc[t] = "idle"

\* The host lets a trigger() start: the adapter exists and, when the host
\* serialises the calls, no other trigger() is in flight
MayTrigger == status = "ready" /\ (serialised => Quiet)

\* The host calls unstage() and describe() between triggers
MayCall == status = "ready" /\ Quiet

\* The call of thread t ends, with an exception or with NullStatus
Finish(t, outcome) ==
  /\ pc' = [pc EXCEPT ![t] = "idle"]
  /\ loc' = [loc EXCEPT ![t] = NoLocals]
  /\ last' = Returned("trigger", outcome)

Goto(t, label, l) ==
  /\ pc' = [pc EXCEPT ![t] = label]
  /\ loc' = [loc EXCEPT ![t] = l]
  /\ UNCHANGED last

\* Mutant of new_uid: the identifier is generated once and used again
new_uid_reused(next) == 1

\* datum_id = new_uid(): an identifier no earlier call returned
new_uid(next) == next

\* x = self._motor0.read()[...]; y = self._motor1.read()[...];
\* datum_id = new_uid(); srw_file = /tmp/data/<date>/<datum_id>.dat
TriggerRead(t) ==
  /\ MayTrigger
  /\ pc[t] = "idle"
  /\ nextUid <= (IF serialised THEN MaxUid ELSE MaxOverlapUid)
  /\ snap' = Some([sig |-> sig, resource_id |-> resource_id,
                   resources |-> resources, datums |-> datums])
  /\ \E x \in Readings :
       IF Cfg.motor1 = PyNone
         THEN \* None has no attribute 'read'
              /\ Finish(t, "AttributeError")
              /\ UNCHANGED nextUid
         ELSE \E y \in Readings, date \in Dates :
                /\ pc' = [pc EXCEPT ![t] = "auth"]
                /\ loc' = [loc EXCEPT ![t] =
                             [@ EXCEPT !.x = x, !.y = y,
                                !.datum_id = new_uid(nextUid),
                                !.srw_file =
                                  Some(<<"/tmp/data", date, new_uid(nextUid)>>)]]
                /\ last' = Returned("trigger", "running")
                /\ nextUid' = nextUid + 1
  /\ UNCHANGED <<args, serialised, status, self, resource_id,
                 result, sig, resources, datums, files, remoteCalled,
                 completed>>

\* sb = SirepoBluesky(server); data = sb.auth('srw', sim_id);
\* sb.get_datafile() for the units string (which nothing uses)
TriggerAuth(t) ==
  /\ pc[t] = "auth"
  /\ remoteCalled' = TRUE
  /\ \/ Finish(t, "AuthError")
     \/ \E bl \in Beamlines :
          Goto(t, "find",
               [loc[t] EXCEPT !.data = Some([beamline |-> bl, report |-> None])])
  /\ UNCHANGED <<args, serialised, status, self, resource_id,
                 result, sig, resources, datums, files, nextUid, completed,
                 snap>>

\* Mutant of SetParams: the two readings are written the wrong way round
SetParamsSwapped(bl, i, param0, param1, x, y) ==
  [bl EXCEPT ![i].params =
     SetItem(SetItem(bl[i].params, param0, y * Scale), param1, x * Scale)]

\* The beamline after element[param0] = x * 1000; element[param1] = y * 1000
\* on its i-th element
SetParams(bl, i, param0, param1, x, y) ==
  [bl EXCEPT ![i].params =
     SetItem(SetItem(bl[i].params, param0, x * Scale), param1, y * Scale)]

\* element = sb.find_element(...optic_name); the two assignments;
\* watch = sb.find_element(...watch_name); data['report'] = ...
TriggerSetParams(t) ==
  /\ pc[t] = "find"
  /\ LET bl == loc[t].data[1].beamline
         i == find_element(bl, Cfg.optic_name)
         bl1 == SetParams(bl, i, Cfg.param0, Cfg.param1, loc[t].x, loc[t].y)
         w == find_element(bl1, Cfg.watch_name)
     IN  IF i = 0 \/ w = 0
           THEN Finish(t, "ElementNotFound")
           ELSE Goto(t, "run",
                     [loc[t] EXCEPT !.data =
                        Some([beamline |-> bl1,
                              report |-> Some(<<"watchpointReport", bl1[w].id>>)])])
  /\ UNCHANGED <<args, serialised, status, self, resource_id,
                 result, sig, resources, datums, files, nextUid, remoteCalled,
                 completed, snap>>

\* Mutant of TriggerRun: the image signal is set before the run
TriggerRunAfterPut(t) ==
  /\ pc[t] = "run"
  /\ sig' = [sig EXCEPT !["image"] = Some(loc[t].datum_id)]
  /\ \/ Finish(t, "RunError")
     \/ Goto(t, "fetch", [loc[t] EXCEPT !.x = 0, !.y = 0, !.data = None])
  /\ UNCHANGED <<args, serialised, status, self, resource_id,
                 result, resources, datums, files, nextUid, remoteCalled,
                 completed, snap>>

\* sb.run_simulation(): the service is sent the model as it is now.  x, y
\* and data are not used after this line and the model forgets them.
TriggerRun(t) ==
  /\ pc[t] = "run"
  /\ \/ Finish(t, "RunError")
     \/ Goto(t, "fetch", [loc[t] EXCEPT !.x = 0, !.y = 0, !.data = None])
  /\ UNCHANGED <<args, serialised, status, self, resource_id,
                 result, sig, resources, datums, files, nextUid, remoteCalled,
                 completed, snap>>

\* with open(srw_file, 'wb') as f: f.write(sb.get_datafile());
\* ret = read_srw_file(srw_file)
TriggerFetch(t) ==
  /\ pc[t] = "fetch"
  /\ LET path == loc[t].srw_file[1]
     IN  \/ \* open() fails: the directory does not exist
            /\ Finish(t, "IOError")
            /\ UNCHANGED files
         \/ \* the download fails after open() created the file
            /\ Finish(t, "DownloadError")
            /\ files' = files \cup {path}
         \/ \* the reader rejects the file
            /\ Finish(t, "ReaderError")
            /\ files' = files \cup {path}
         \/ /\ \E r \in Rets :
                 Goto(t, "put", [loc[t] EXCEPT !.ret = Some(r), !.put = 1])
            /\ files' = files \cup {path}
  /\ UNCHANGED <<args, serialised, status, self, resource_id,
                 result, sig, resources, datums, nextUid, remoteCalled,
                 completed, snap>>

\* The order of the six put() calls
PutOrder ==
  <<"image", "shape", "mean", "photon_energy", "horizontal_extent",
    "vertical_extent">>

\* The value the call puts into signal `name`: the datum id for image, the
\* reader's field of that name for the others
PutValue(name, datum_id, ret) ==
  IF name = "image" THEN datum_id ELSE ret[name]

\* Mutant of TriggerPut: self.mean.put(ret['mean']) is missing
TriggerPutNoMean(t) ==
  /\ pc[t] = "put"
  /\ LET i == loc[t].put
         name == PutOrder[i]
     IN  /\ sig' = IF name = "mean" THEN sig
                   ELSE [sig EXCEPT ![name] =
                           Some(PutValue(name, loc[t].datum_id, loc[t].ret[1]))]
         /\ IF i = Len(PutOrder)
              THEN Goto(t, "insert_resource", [loc[t] EXCEPT !.put = 0])
              ELSE Goto(t, "put", [loc[t] EXCEPT !.put = i + 1])
  /\ UNCHANGED <<args, serialised, status, self, resource_id,
                 result, resources, datums, files, nextUid, remoteCalled,
                 completed, snap>>

\* self.<name>.put(...), one signal per step
TriggerPut(t) ==
  /\ pc[t] = "put"
  /\ LET i == loc[t].put
         name == PutOrder[i]
     IN  /\ sig' = [sig EXCEPT ![name] =
                      Some(PutValue(name, loc[t].datum_id, loc[t].ret[1]))]
         /\ IF i = Len(PutOrder)
              THEN Goto(t, "insert_resource", [loc[t] EXCEPT !.put = 0])
              ELSE Goto(t, "put", [loc[t] EXCEPT !.put = i + 1])
  /\ UNCHANGED <<args, serialised, status, self, resource_id,
                 result, resources, datums, files, nextUid, remoteCalled,
                 completed, snap>>

\* Mutant of TriggerInsertResource: a resource is inserted only when
\* self._resource_id is None
TriggerInsertResourceOnce(t) ==
  /\ pc[t] = "insert_resource"
  /\ \/ /\ Finish(t, "RegistryError")
        /\ UNCHANGED <<resources, resource_id>>
     \/ /\ IF resource_id = None
             THEN /\ resources' = Append(resources,
                                         [spec |-> "srw",
                                          path |-> loc[t].srw_file[1]])
                  /\ resource_id' = Some(Len(resources) + 1)
             ELSE UNCHANGED <<resources, resource_id>>
        /\ Goto(t, "insert_datum", loc[t])
  /\ UNCHANGED <<args, serialised, status, self, result, sig,
                 datums, files, nextUid, remoteCalled, completed, snap>>

\* self._resource_id = self.reg.insert_resource('srw', srw_file, {})
TriggerInsertResource(t) ==
  /\ pc[t] = "insert_resource"
  /\ \/ /\ Finish(t, "RegistryError")
        /\ UNCHANGED <<resources, resource_id>>
     \/ /\ resources' = Append(resources,
                               [spec |-> "srw", path |-> loc[t].srw_file[1]])
        /\ resource_id' = Some(Len(resources) + 1)
        /\ Goto(t, "insert_datum", loc[t])
  /\ UNCHANGED <<args, serialised, status, self, result, sig,
                 datums, files, nextUid, remoteCalled, completed, snap>>

\* self.reg.insert_datum(self._resource_id, datum_id, {}); return NullStatus()
TriggerInsertDatum(t) ==
  /\ pc[t] = "insert_datum"
  /\ \/ /\ Finish(t, "RegistryError")
        /\ UNCHANGED <<datums, completed>>
     \/ /\ datums' = Append(datums, [resource |-> resource_id,
                                     datum_id |-> loc[t].datum_id])
        /\ completed' = completed \cup
                          {[datum_id |-> loc[t].datum_id, ret |-> loc[t].ret[1]]}
        /\ Finish(t, "NullStatus")
  /\ UNCHANGED <<args, serialised, status, self, resource_id,
                 result, sig, resources, files, nextUid, remoteCalled, snap>>

\* ------------------------------------------------------------- unstage

\* Mutant of Unstage: self._resource_id is not reset
UnstageKeepsResource ==
  /\ MayCall
  /\ result' = {}
  /\ last' = Returned("unstage", "ok")
  /\ UNCHANGED <<args, serialised, status, self, resource_id, sig, resources,
                 datums, files, nextUid, remoteCalled, pc, loc,
                 completed, snap>>

\* Mutant of Unstage: the signals are reset as well
UnstageClearsSignals ==
  /\ MayCall
  /\ resource_id' = None
  /\ result' = {}
  /\ sig' = NoSignals
  /\ last' = Returned("unstage", "ok")
  /\ UNCHANGED <<args, serialised, status, self, resources,
                 datums, files, nextUid, remoteCalled, pc, loc,
                 completed, snap>>

\* self._resource_id = None; self._result.clear()
Unstage ==
  /\ MayCall
  /\ resource_id' = None
  /\ result' = {}
  /\ last' = Returned("unstage", "ok")
  /\ UNCHANGED <<args, serialised, status, self, sig, resources,
                 datums, files, nextUid, remoteCalled, pc, loc,
                 completed, snap>>

\* ------------------------------------------------------------ describe

\* super().describe(): one metadata dict per read attribute
BaseDescribe(attrs) ==
  [f \in attrs |-> [k \in {"source", "dtype"} |->
                      IF k = "source" THEN f ELSE "number"]]

\* Mutant of describe: every field is updated, not only image
describeMarksAll(attrs) ==
  LET res == BaseDescribe(attrs)
  IN  [f \in DOMAIN res |-> SetItem(res[f], "external", "FILESTORE")]

\* res[self.image.name].update(dict(external="FILESTORE"))
describe(attrs) ==
  LET res == BaseDescribe(attrs)
  IN  [f \in DOMAIN res |->
         IF f = "image" THEN SetItem(res[f], "external", "FILESTORE")
         ELSE res[f]]

Describe ==
  /\ MayCall
  /\ last' = [op |-> "describe", outcome |-> "ok",
              res |-> Some(describe(SignalNames)), after |-> last.op]
  /\ UNCHANGED <<args, serialised, status, self, resource_id,
                 result, sig, resources, datums, files, nextUid,
                 remoteCalled, pc, loc, completed, snap>>

\* ---------------------------------------------------------------- next

Trigger(t) ==
  \/ TriggerRead(t)
  \/ TriggerAuth(t)
  \/ TriggerSetParams(t)
  \/ TriggerRun(t)
  \/ TriggerFetch(t)
  \/ TriggerPut(t)
  \/ TriggerInsertResource(t)
  \/ TriggerInsertDatum(t)

Next ==
  \/ Construct
  \/ \E t \in Threads : Trigger(t)
  \/ Unstage
  \/ Describe

Spec == Init /\ [][Next]_vars

SpecOverlap == InitOverlap /\ [][Next]_vars

\* -------------------------------------------------------------- claims

\* The six signals after one call published datum id d and reader result r
Published(d, r) == [s \in SignalNames |-> Some(PutValue(s, d, r))]

\* Thread t inserts its datum and returns NullStatus in this step
Completes(t) ==
  /\ pc[t] = "insert_datum"
  /\ pc'[t] = "idle"
  /\ last'.outcome = "NullStatus"

\* unstage() returns in this step
UnstageReturns == last'.op = "unstage" /\ last.op # "unstage"

\* The exceptions of the remote service: authentication failure, element or
\* watch-point not found, simulation run failure
RemoteErrors == {"AuthError", "ElementNotFound", "RunError"}

\* C1: with serialised calls, any of which may fail, the datum entries of the
\* registry correspond one-to-one to the triggers that completed: one entry
\* per completed trigger under its datum id, no datum id shared by two
\* completed triggers, and every datum under a resource no other datum has.
C1_DatumsMatchCompletedTriggers ==
  /\ Len(datums) = Cardinality(completed)
  /\ \A c \in completed :
       Cardinality({i \in DOMAIN datums : datums[i].datum_id = c.datum_id}) = 1
  /\ \A i \in DOMAIN datums : \E c \in completed : c.datum_id = datums[i].datum_id
  /\ \A c1, c2 \in completed : c1 # c2 => c1.datum_id # c2.datum_id
  /\ \A i \in DOMAIN datums :
       /\ datums[i].resource # None
       /\ datums[i].resource[1] \in DOMAIN resources
       /\ \A j \in DOMAIN datums : i # j => datums[i].resource # datums[j].resource

\* Two triggers completed and a third failed after it got its datum id
C1_Witness ==
  /\ Quiet
  /\ Cardinality(completed) = 2
  /\ nextUid > 3
  /\ last.op = "trigger"
  /\ last.outcome \notin {"NullStatus", "running"}

\* C2: a trigger that failed with a remote-service error returned that error
\* and left the signals, the resource-id reference and the registry as they
\* were when the call began.
C2_RemoteFailureLeavesNoTrace ==
  (last.op = "trigger" /\ last.outcome \in RemoteErrors) =>
    /\ sig = snap[1].sig
    /\ resource_id = snap[1].resource_id
    /\ resources = snap[1].resources
    /\ datums = snap[1].datums

\* A run failure after an earlier trigger had published and registered
C2_Witness ==
  /\ last.op = "trigger"
  /\ last.outcome = "RunError"
  /\ sig["image"] # None
  /\ resource_id # None
  /\ Len(datums) >= 1

\* C3: construction fails with an assertion error exactly when the
\* simulation id is None or empty; it calls the remote service in neither
\* case; when it succeeds the adapter holds the arguments as passed.
C3_ConstructionValidatesSimId ==
  /\ status # "new" => (status = "AssertionError" <=> args.sim_id \in {PyNone, ""})
  /\ status = "ready" => self = Some(args)
  /\ last.op = "construct" => ~remoteCalled /\ last.outcome # "running"

\* Construction with an empty simulation id has failed
C3_Witness ==
  /\ status = "AssertionError"
  /\ args.sim_id = ""
  /\ last = Returned("construct", "AssertionError")
  /\ ~remoteCalled

\* The parameters of the target element in the model of call t
ElementParams(t) ==
  LET bl == loc[t].data[1].beamline
  IN  bl[find_element(bl, Cfg.optic_name)].params

\* C4: (a) when run_simulation() is invoked the target element's first
\* parameter is 1000*x and its second 1000*y, x and y the motor readings of
\* the call; (b) when the call returns NullStatus the five derived signals
\* hold the reader's fields and image holds the call's datum id.
C4_ParamsScaledAndSignalsPublished ==
  /\ [][\A t \in Threads :
          (pc[t] = "run" /\ pc'[t] # "run") =>
            /\ ElementParams(t)[Cfg.param0] = 1000 * loc[t].x
            /\ ElementParams(t)[Cfg.param1] = 1000 * loc[t].y]_vars
  /\ [][\A t \in Threads :
          Completes(t) => sig' = Published(loc[t].datum_id, loc[t].ret[1])]_vars

\* A trigger with the stub's reader result returned NullStatus
C4_Witness ==
  /\ last.op = "trigger"
  /\ last.outcome = "NullStatus"
  /\ \E c \in completed :
       /\ c.ret.shape = <<100, 100>>
       /\ c.ret.mean = 5
       /\ sig = Published(c.datum_id, c.ret)

\* C5: unstage() leaves the resource-id reference and the pending-result
\* cache empty and does not change the registry, the files on disk or the
\* configuration.
C5_UnstageResetsOnlyItsOwnState ==
  [][UnstageReturns =>
       /\ resource_id' = None
       /\ result' = {}
       /\ UNCHANGED <<resources, datums, files, self>>]_vars

\* unstage() returned after two triggers had registered their results
C5_Witness ==
  /\ last.op = "unstage"
  /\ resource_id = None
  /\ Len(datums) = 2
  /\ Cardinality(files) >= 2

\* C6: whenever describe() returns, the image field is marked
\* external = FILESTORE and no other field has an external mark.
C6_DescribeMarksOnlyImage ==
  last.op = "describe" =>
    LET res == last.res[1]
    IN  /\ "image" \in DOMAIN res
        /\ \A f \in DOMAIN res : ("external" \in DOMAIN res[f]) <=> f = "image"
        /\ res["image"]["external"] = "FILESTORE"

\* describe() returned right after an unstage() that followed a trigger
C6_Witness ==
  /\ last.op = "describe"
  /\ last.after = "unstage"
  /\ sig["image"] # None
  /\ resource_id = None

\* C7 as stated: after unstage() the signals no longer hold the result of
\* any earlier trigger.
C7_UnstageClearsSignals ==
  last.op = "unstage" =>
    \A c \in completed : sig # Published(c.datum_id, c.ret)

\* C7 as amended: a trigger that returns NullStatus replaces the six signals
\* as a whole by its own result; unstage() resets the resource-id reference
\* and the (never filled) cache and leaves the six signals as they were.
C7_UnstageKeepsSignals ==
  /\ [][\A t \in Threads :
          Completes(t) => sig' = Published(loc[t].datum_id, loc[t].ret[1])]_vars
  /\ [][UnstageReturns =>
          sig' = sig /\ resource_id' = None /\ result' = {}]_vars
  /\ [](last.op = "unstage" => resource_id = None /\ result = {})

\* After unstage() the signals still hold the second trigger's result
C7_Witness ==
  /\ last.op = "unstage"
  /\ Cardinality(completed) = 2
  /\ \E c \in completed :
       /\ sig = Published(c.datum_id, c.ret)
       /\ \A d \in completed : d.datum_id <= c.datum_id

\* Thread t registers its resource in this step
Registers(t) == pc[t] = "insert_resource" /\ pc'[t] = "insert_datum"

\* C8 as stated: the registration step inserts a resource only when the
\* resource-id reference is empty and otherwise reuses the registered one.
C8_ResourceReusedInSession ==
  [][\A t \in Threads :
       Registers(t) =>
         IF resource_id = None
           THEN Len(resources') = Len(resources) + 1
           ELSE resources' = resources /\ resource_id' = resource_id]_vars

\* C8 as amended: the registration step always inserts a new resource for
\* the file of this call and stores its id in the resource-id reference,
\* whatever the reference held; the datum then links the call's datum id to
\* the resource the reference names.
C8_ResourceInsertedEveryTrigger ==
  /\ [][\A t \in Threads :
          Registers(t) =>
            /\ resources' = Append(resources,
                                   [spec |-> "srw", path |-> loc[t].srw_file[1]])
            /\ resource_id' = Some(Len(resources'))]_vars
  /\ [][\A t \in Threads :
          Completes(t) =>
            datums' = Append(datums, [resource |-> resource_id,
                                      datum_id |-> loc[t].datum_id])]_vars

\* A second trigger registered a second resource and its datum under it
C8_Witness ==
  /\ last.op = "trigger"
  /\ last.outcome = "NullStatus"
  /\ Len(resources) = 2
  /\ Len(datums) = 2
  /\ datums[1].resource = Some(1)
  /\ datums[2].resource = Some(2)
  /\ resource_id = Some(2)

\* C9: an adapter without a second motor can be triggered: the call does
\* not fail on the absent motor, and no call sends the service a value under
\* a None or empty parameter name.
C9_OneMotorTriggerWorks ==
  /\ (status = "ready" /\ Cfg.motor1 = PyNone /\ last.op = "trigger") =>
       last.outcome # "AttributeError"
  /\ \A t \in Threads :
       pc[t] = "run" => DOMAIN ElementParams(t) \cap {PyNone, ""} = {}

\* The signals hold the datum id of one completed call and derived fields
\* that are not all that call's
SignalsMixed ==
  \E c \in completed :
    sig["image"] = Some(c.datum_id) /\ sig # Published(c.datum_id, c.ret)

\* A datum is registered under a resource inserted for another call's file
DatumUnderOtherResource ==
  \E i \in DOMAIN datums :
    /\ datums[i].resource # None
    /\ resources[datums[i].resource[1]].path[3] # datums[i].datum_id

\* C10: when the host serialises the calls, no state in which the calls
\* have returned has mixed signals or a datum under another call's resource;
\* when trigger() calls overlap such a state is reachable (C10_Witness).
C10_SerialisedCallsDoNotMix ==
  (serialised /\ Quiet) => ~SignalsMixed /\ ~DatumUnderOtherResource

\* Two overlapping triggers both returned NullStatus, leaving mixed signals
\* and a datum under the other call's resource
C10_Witness ==
  /\ ~serialised
  /\ Quiet
  /\ Cardinality(completed) = 2
  /\ SignalsMixed
  /\ DatumUnderOtherResource

====
